---- MODULE Spec2Model ----
(***************************************************************************)
(* A model of agent.py: the interview-roadmap generator.                   *)
(*                                                                         *)
(* Texts are sequences of lexemes.  A lexeme stands for a fixed piece of   *)
(* text: "{" "}" "[" "]" "," are the JSON punctuation, "1" a JSON number,  *)
(* "M" a JSON string literal, a key name such as "note" the member prefix  *)
(* "note": of an object, " " a run of whitespace, "w" a word of prose,     *)
(* "fence" a code fence of three backquotes and "json" the word json (the  *)
(* tag of a fence when it follows one directly).  JSON values are tagged   *)
(* records; an object is a function from every key name to a value or      *)
(* Absent; the content of a string is a sequence of words.                 *)
(*                                                                         *)
(* Left out: a snippet of the search service that is the empty string, an  *)
(* end of input at the company or role prompt, and a failing open() or     *)
(* json.dump in save_roadmap.  Search texts and the prompt are dropped     *)
(* once the prompt is built: the answer of the LLM is any text whatever    *)
(* the prompt was.                                                         *)
(***************************************************************************)
EXTENDS Integers, Sequences, FiniteSets, TLC

VARIABLES
  pc,            \* the statement main, or the parser's caller, is at
  apiKey,        \* whether GOOGLE_API_KEY is set
  company,       \* main's company, a text
  role,          \* main's role, a text
  jd_text,       \* main's jd_text: None, or a string
  queryNo,       \* the query search_company_info is at
  all_results,   \* search_company_info's all_results
  company_info,  \* generate_roadmap's company_info
  response,      \* the text the LLM answered with
  wrap,          \* how the response was built: the object embedded in it, if any
  parsed,        \* what extract_json_from_text returned
  roadmap,       \* what generate_roadmap returned
  clock,         \* the last reading of datetime.now()
  raised,        \* whether main's except clause ran
  searchCalls,   \* requests.get calls issued
  searchFailed,  \* requests.get calls that raised
  llmCalls,      \* llm.invoke calls issued
  llmFailed,     \* whether llm.invoke raised
  displayed,     \* display_roadmap calls that returned
  fileWrites     \* files written by save_roadmap

vars == <<pc, apiKey, company, role, jd_text, queryNo, all_results,
          company_info, response, wrap, parsed, roadmap, clock, raised,
          searchCalls, searchFailed, llmCalls, llmFailed, displayed, fileWrites>>

---------------------------------------------------------------------------
(* Bounds of the model.                                                    *)

\* longest text enumerated lexeme by lexeme
MaxLen == 4
\* longest prose before and after an embedded object
MaxProse == 1
\* longest garbage response of the LLM in a run of main
MaxGarbage == 2
\* most members of an object the LLM answers with in a run of main
MaxMembers == 1
\* most RelatedTopics entries of a search response
MaxRelated == 4
\* latest reading of the clock
MaxClock == 1
\* characters of an Abstract and of a RelatedTopics Text
AbstractLen == 900
TopicLen == 400
\* characters of the 'no results' sentence, with its query
NoResultsLen == 120

---------------------------------------------------------------------------
(* JSON values.                                                            *)

TopKeys == {"company", "role", "rounds", "difficulty", "recommended_order",
            "evidence", "generated_at", "version", "note"}

RequiredKeys == TopKeys \ {"note"}

Keys == TopKeys \cup {"type", "topics", "key_skills", "topic_count"}

Absent == [t |-> "absent"]

None == [t |-> "none"]

Num(n) == [t |-> "num", n |-> n]

\* a string holding the words of text
StrOf(text) == [t |-> "str", s |-> text]

Str(word) == StrOf(<<word>>)

List(items) == [t |-> "list", items |-> items]

Obj(fields) == [t |-> "obj", fields |-> fields]

NoFields == [k \in Keys |-> Absent]

EmptyObj == Obj(NoFields)

IsObj(v) == v.t = "obj"

Has(v, k) == IsObj(v) /\ v.fields[k] # Absent

KeysOf(v) == {k \in Keys : v.fields[k] # Absent}

\* d[k] = v
SetItem(d, k, v) == Obj([d.fields EXCEPT ![k] = v])

\* d.get(k, default)
Get(d, k, default) == IF d.fields[k] # Absent THEN d.fields[k] ELSE default

\* bool(v)
Truthy(v) ==
  CASE v.t = "num" -> v.n # 0
    [] v.t = "str" -> v.s # <<>>
    [] v.t = "list" -> v.items # <<>>
    [] v.t = "obj" -> KeysOf(v) # {}
    [] OTHER -> FALSE

---------------------------------------------------------------------------
(* json.loads on a lexeme sequence.                                        *)

RECURSIVE SkipWs(_, _)
SkipWs(s, i) == IF i <= Len(s) /\ s[i] = " " THEN SkipWs(s, i + 1) ELSE i

Fail == [ok |-> FALSE, v |-> Absent, next |-> 0]

Ok(v, next) == [ok |-> TRUE, v |-> v, next |-> next]

RECURSIVE ParseValue(_, _)
RECURSIVE ParseElements(_, _, _)
RECURSIVE ParseMembers(_, _, _)

ParseElements(s, i, acc) ==
  LET e == ParseValue(s, i)
      j == SkipWs(s, e.next)
  IN IF ~e.ok \/ j > Len(s) THEN Fail
     ELSE IF s[j] = "," THEN ParseElements(s, j + 1, Append(acc, e.v))
     ELSE IF s[j] = "]" THEN Ok(List(Append(acc, e.v)), j + 1)
     ELSE Fail

ParseMembers(s, i, acc) ==
  LET k == SkipWs(s, i)
  IN IF k > Len(s) \/ s[k] \notin Keys THEN Fail
     ELSE LET e == ParseValue(s, k + 1)
              j == SkipWs(s, e.next)
          IN IF ~e.ok \/ j > Len(s) THEN Fail
             ELSE IF s[j] = "," THEN ParseMembers(s, j + 1, [acc EXCEPT ![s[k]] = e.v])
             ELSE IF s[j] = "}" THEN Ok(Obj([acc EXCEPT ![s[k]] = e.v]), j + 1)
             ELSE Fail

ParseValue(s, i) ==
  LET j == SkipWs(s, i)
  IN IF j > Len(s) THEN Fail
     ELSE IF s[j] = "1" THEN Ok(Num(1), j + 1)
     ELSE IF s[j] = "M" THEN Ok(Str("M"), j + 1)
     ELSE IF s[j] = "[" THEN
       LET c == SkipWs(s, j + 1)
       IN IF c <= Len(s) /\ s[c] = "]" THEN Ok(List(<<>>), c + 1)
          ELSE ParseElements(s, j + 1, <<>>)
     ELSE IF s[j] = "{" THEN
       LET c == SkipWs(s, j + 1)
       IN IF c <= Len(s) /\ s[c] = "}" THEN Ok(EmptyObj, c + 1)
          ELSE ParseMembers(s, j + 1, NoFields)
     ELSE Fail

\* json.loads(s): the value, or a JSONDecodeError
Loads(s) ==
  LET e == ParseValue(s, 1)
  IN IF e.ok /\ SkipWs(s, e.next) > Len(s) THEN [error |-> FALSE, value |-> e.v]
     ELSE [error |-> TRUE, value |-> Absent]

---------------------------------------------------------------------------
(* The str methods that extract_json_from_text uses.                       *)

RECURSIVE LStrip(_)
LStrip(s) == IF s # <<>> /\ Head(s) = " " THEN LStrip(Tail(s)) ELSE s

RECURSIVE RStrip(_)
RStrip(s) ==
  IF s # <<>> /\ s[Len(s)] = " " THEN RStrip(SubSeq(s, 1, Len(s) - 1)) ELSE s

\* s.strip()
Strip(s) == RStrip(LStrip(s))

\* the positions (from 1) where pat occurs in s
Occurrences(s, pat) ==
  {i \in 1..(Len(s) - Len(pat) + 1) : SubSeq(s, i, i + Len(pat) - 1) = pat}

Min(S) == CHOOSE x \in S : \A y \in S : x <= y

Max(S) == CHOOSE x \in S : \A y \in S : x >= y

\* pat in s
Contains(s, pat) == Occurrences(s, pat) # {}

\* s.find(c), an index from 0, or -1
Find(s, c) == IF Contains(s, <<c>>) THEN Min(Occurrences(s, <<c>>)) - 1 ELSE -1

\* s.rfind(c), an index from 0, or -1
RFind(s, c) == IF Contains(s, <<c>>) THEN Max(Occurrences(s, <<c>>)) - 1 ELSE -1

\* s[start:end], for start, end >= 0
Slice(s, start, end) == SubSeq(s, start + 1, IF end > Len(s) THEN Len(s) ELSE end)

\* s.split(sep)[0]
SplitFirst(s, sep) ==
  IF Contains(s, sep) THEN SubSeq(s, 1, Min(Occurrences(s, sep)) - 1) ELSE s

\* s.split(sep)[1], for sep in s
SplitSecond(s, sep) ==
  SplitFirst(SubSeq(s, Min(Occurrences(s, sep)) + Len(sep), Len(s)), sep)

Fence == <<"fence">>

JsonFence == <<"fence", "json">>

---------------------------------------------------------------------------
(* RoadmapGenerator.create_default_roadmap and extract_json_from_text.     *)

\* datetime.isoformat()
IsoFormat(now) == Str("T" \o ToString(now))

StrList(names) == List([i \in 1..Len(names) |-> Str(names[i])])

Round(type, topics) ==
  Obj([NoFields EXCEPT !["type"] = Str(type), !["topics"] = StrList(topics)])

DefaultRounds ==
  List(<<Round("Technical Screening", <<"Data Structures", "Algorithms", "Problem Solving">>),
         Round("Coding Round", <<"System Design", "Object-Oriented Programming">>),
         Round("System Design", <<"Microservices", "Scalability", "Database Design">>),
         Round("Behavioral", <<"Teamwork", "Communication", "Experience">>)>>)

DefaultNote == Str("Default roadmap - AI generation failed")

Version == Str("1.0")

create_default_roadmap(c, r, now) ==
  Obj([NoFields EXCEPT
    !["company"] = StrOf(c),
    !["role"] = StrOf(r),
    !["rounds"] = DefaultRounds,
    !["difficulty"] = Str("Medium"),
    !["recommended_order"] =
        StrList(<<"Data Structures", "Algorithms", "System Design", "Behavioral">>),
    !["evidence"] =
        Obj([NoFields EXCEPT
          !["key_skills"] = StrList(<<"General Programming", "Problem Solving">>),
          !["topic_count"] = Num(4)]),
    !["generated_at"] = IsoFormat(now),
    !["version"] = Version,
    !["note"] = DefaultNote])

\* the working text: inside the first json fence, else inside the first fence
FencedText(cleaned) ==
  IF Contains(cleaned, JsonFence)
    THEN Strip(SplitFirst(SplitSecond(cleaned, JsonFence), Fence))
  ELSE IF Contains(cleaned, Fence)
    THEN Strip(SplitFirst(SplitSecond(cleaned, Fence), Fence))
  ELSE cleaned

\* a slip: the span ends at the first closing brace
JsonStrToFirstClose(text) ==
  LET cleaned == FencedText(Strip(text))
      start == Find(cleaned, "{")
      end == Find(cleaned, "}") + 1
  IN IF start # -1 /\ end # 0 THEN Slice(cleaned, start, end) ELSE cleaned

\* the text handed to json.loads
JsonStr(text) ==
  LET cleaned == FencedText(Strip(text))
      start == Find(cleaned, "{")
      end == RFind(cleaned, "}") + 1
  IN IF start # -1 /\ end # 0 THEN Slice(cleaned, start, end) ELSE cleaned

\* whether json.loads raises JSONDecodeError on the text of the response
DecodeFails(text) == Loads(JsonStr(text)).error

\* a slip: an empty record is returned on a JSONDecodeError
extract_json_or_empty(text, now) ==
  LET decoded == Loads(JsonStr(text))
  IN IF decoded.error THEN EmptyObj ELSE decoded.value

\* the value extract_json_from_text returns; now is the clock read by the handler
extract_json_from_text(text, now) ==
  LET decoded == Loads(JsonStr(text))
  IN IF decoded.error THEN create_default_roadmap(<<"Unknown">>, <<"Unknown">>, now)
     ELSE decoded.value

---------------------------------------------------------------------------
(* RoadmapGenerator.search_duckduckgo and search_company_info.  A search   *)
(* text is a sequence of pieces [k, n]: n characters of the piece of kind  *)
(* k, pieces being one blank apart.                                        *)

\* data['RelatedTopics'][:3]
TopicLimit == 3
\* " ".join(results)[:1500]
SnippetLimit == 1500
\* queries[:2]
QueryLimit == 2
\* combined_results[:2000]
InfoLimit == 2000
\* len of the 'Search unavailable' sentence
UnavailableLen == 66
\* len of the static paragraph, without company and role
StaticLen == 418

Piece(k, n) == [k |-> k, n |-> n]

Unavailable == Piece("unavailable", UnavailableLen)

NoResults == Piece("noresults", NoResultsLen)

Static == Piece("static", StaticLen)

\* text[:limit]
RECURSIVE Truncate(_, _)
Truncate(text, limit) ==
  IF text = <<>> \/ limit <= 0 THEN <<>>
  ELSE IF Head(text).n >= limit THEN <<Piece(Head(text).k, limit)>>
  ELSE <<Head(text)>> \o Truncate(Tail(text), limit - Head(text).n - 1)

\* " ".join(texts)
RECURSIVE Join(_)
Join(texts) == IF texts = <<>> THEN <<>> ELSE Head(texts) \o Join(Tail(texts))

\* the requests.get outcomes: the call raises, or answers with data
SearchFails == [fails |-> TRUE, abstract |-> FALSE, topics |-> <<>>]

RECURSIVE SeqsUpTo(_, _)
SeqsUpTo(S, n) ==
  IF n = 0 THEN {<<>>}
  ELSE LET shorter == SeqsUpTo(S, n - 1)
       IN shorter \cup {Append(q, x) : q \in shorter, x \in S}

\* a RelatedTopics entry has a 'Text' ("T") or has none ("-")
SearchOutcomes ==
  {SearchFails} \cup
  [fails : {FALSE}, abstract : BOOLEAN, topics : SeqsUpTo({"T", "-"}, MaxRelated)]

RECURSIVE TopicTexts(_)
TopicTexts(topics) ==
  IF topics = <<>> THEN <<>>
  ELSE (IF Head(topics) = "T" THEN <<Piece("T", TopicLen)>> ELSE <<>>)
       \o TopicTexts(Tail(topics))

search_duckduckgo(outcome) ==
  IF outcome.fails THEN <<Unavailable>>
  ELSE LET results ==
             (IF outcome.abstract THEN <<Piece("A", AbstractLen)>> ELSE <<>>)
             \o TopicTexts(SubSeq(outcome.topics, 1,
                                  IF Len(outcome.topics) > TopicLimit
                                  THEN TopicLimit ELSE Len(outcome.topics)))
       IN IF results = <<>> THEN <<NoResults>>
          ELSE Truncate(results, SnippetLimit)

\* search_company_info's queries, each with company and role filled in
Queries ==
  <<"interview process", "technical interview questions", "hiring process",
    "how to prepare">>

\* a slip: the loop runs over every query
QueriesAll == Queries

\* queries[:2]
QueriesUsed == SubSeq(Queries, 1, QueryLimit)

\* "didn't return specific results" in result
IsNoResults(result) == \E i \in 1..Len(result) : result[i].k = "noresults"

\* a slip: no result is filtered
KeepEveryResult(results, result) == Append(results, result)

\* the body of search_company_info's loop: all_results after one more query
KeepResult(results, result) ==
  IF result # <<>> /\ ~IsNoResults(result) THEN Append(results, result) ELSE results

\* what search_company_info returns
CompanyInfo(results) ==
  IF results # <<>> THEN Truncate(Join(results), InfoLimit) ELSE <<Static>>

---------------------------------------------------------------------------
(* RoadmapGenerator.generate_roadmap after the LLM call, display_roadmap.  *)

\* roadmap[...] = ... raises TypeError on what is not a dict
StampRaises(v) == ~IsObj(v)

\* a slip: the names of the decoded record are kept
KeepNames(v, c, r) == v

StampNames(v, c, r) == SetItem(SetItem(v, "company", StrOf(c)), "role", StrOf(r))

\* a slip: generated_at is not set
StampVersionOnly(v, now) == SetItem(v, "version", Version)

StampMetadata(v, now) ==
  SetItem(SetItem(v, "generated_at", IsoFormat(now)), "version", Version)

\* a slip: the metadata is not added
StampNamesOnly(v, c, r, now) == StampNames(v, c, r)

\* the record generate_roadmap returns for a decoded dict
Stamp(v, c, r, now) == StampMetadata(StampNames(v, c, r), now)

\* ', '.join(v) raises TypeError
JoinRaises(v) ==
  CASE v.t = "str" -> FALSE
    [] v.t = "obj" -> FALSE
    [] v.t = "list" -> \E i \in 1..Len(v.items) : v.items[i].t # "str"
    [] OTHER -> TRUE

\* the body of display_roadmap's loop raises on round_info
RoundRaises(round_info) ==
  IF IsObj(round_info) THEN JoinRaises(Get(round_info, "topics", List(<<>>)))
  ELSE TRUE

\* len(rounds) or the loop over rounds raises
RoundsRaise(rounds) ==
  CASE rounds.t = "list" -> \E i \in 1..Len(rounds.items) : RoundRaises(rounds.items[i])
    [] rounds.t = "str" -> rounds.s # <<>>
    [] rounds.t = "obj" -> KeysOf(rounds) # {}
    [] OTHER -> TRUE

EvidenceRaises(evidence) ==
  /\ Truthy(evidence)
  /\ IF IsObj(evidence) THEN JoinRaises(Get(evidence, "key_skills", List(<<>>)))
     ELSE TRUE

\* display_roadmap(r) raises
DisplayRaises(r) ==
  \/ RoundsRaise(Get(r, "rounds", List(<<>>)))
  \/ JoinRaises(Get(r, "recommended_order", List(<<>>)))
  \/ EvidenceRaises(Get(r, "evidence", EmptyObj))

---------------------------------------------------------------------------
(* The inputs: what the user types, what the LLM answers.                  *)

Alphabet == {"{", "}", "[", "]", "1", "note", "w", "fence", "json", " "}

ObjectTexts ==
  {<<"{", "}">>,
   <<"{", "note", "1", "}">>,
   <<"{", " ", "note", "{", "}", " ", "}">>,
   <<"{", "rounds", "[", "1", "]", "}">>}

\* a response: the text pre as it is (raw), or an object between pre and post,
\* bare or inside a pair of fences
RawWrap(text) == [fence |-> "raw", pre |-> text, obj |-> <<>>, post |-> <<>>]

WrapText(w) ==
  CASE w.fence = "raw" -> w.pre
    [] w.fence = "none" -> w.pre \o w.obj \o w.post
    [] w.fence = "json" ->
         w.pre \o <<"fence", "json", " ">> \o w.obj \o <<" ", "fence">> \o w.post
    [] w.fence = "generic" ->
         w.pre \o <<"fence", " ">> \o w.obj \o <<" ", "fence">> \o w.post

Fences == {"none", "json", "generic"}

ParserWraps ==
  {RawWrap(text) : text \in SeqsUpTo(Alphabet, MaxLen)} \cup
  [fence : Fences, pre : SeqsUpTo(Alphabet, MaxProse), obj : ObjectTexts,
   post : SeqsUpTo(Alphabet, MaxProse)]

ValueTexts ==
  {<<"1">>, <<"M">>, <<"[", "]">>, <<"[", "1", "]">>, <<"[", "{", "}", "]">>,
   <<"{", "}">>}

MemberTexts == {<<k>> \o v : k \in TopKeys, v \in ValueTexts}

RECURSIVE MembersUpTo(_)
MembersUpTo(n) ==
  IF n = 0 THEN {<<>>}
  ELSE LET fewer == MembersUpTo(n - 1)
       IN fewer \cup {IF ms = <<>> THEN m ELSE ms \o <<",">> \o m :
                        ms \in fewer, m \in MemberTexts}

\* what the LLM answers with in a run of main
LlmWraps ==
  {RawWrap(text) : text \in SeqsUpTo(Alphabet, MaxGarbage)} \cup
  [fence : {"none"}, pre : {<<>>},
   obj : {<<"{">> \o ms \o <<"}">> : ms \in MembersUpTo(MaxMembers)}, post : {<<>>}]

LlmRaises == [fence |-> "raises", pre |-> <<>>, obj |-> <<>>, post |-> <<>>]

CompanyInputs == {<<>>, <<" ">>, <<" ", "Acme", " ">>}

RoleInputs == {<<>>, <<"SDE">>}

\* the lines typed before the end of input
JdInputs == {<<>>, <<<<>>>>, <<<<" ">>, <<>>>>, <<<<"jd">>>>, <<<<" ">>, <<"jd">>>>}

\* "\n".join(lines); a line break is whitespace
RECURSIVE JoinLines(_)
JoinLines(lines) ==
  IF lines = <<>> THEN <<>>
  ELSE IF Len(lines) = 1 THEN Head(lines)
  ELSE Head(lines) \o <<" ">> \o JoinLines(Tail(lines))

\* a slip: the text is returned without the check
get_job_description_unchecked(lines) == StrOf(JoinLines(lines))

\* what get_job_description returns
get_job_description(lines) ==
  IF Strip(JoinLines(lines)) = <<>> THEN None ELSE StrOf(JoinLines(lines))

---------------------------------------------------------------------------
(* main, step by step.                                                     *)

NoWrap == RawWrap(<<>>)

Init ==
  /\ pc = "main"
  /\ apiKey \in BOOLEAN
  /\ company = <<>>
  /\ role = <<>>
  /\ jd_text = None
  /\ queryNo = 1
  /\ all_results = <<>>
  /\ company_info = <<>>
  /\ response = <<>>
  /\ wrap = NoWrap
  /\ parsed = None
  /\ roadmap = None
  /\ clock = 0
  /\ raised = FALSE
  /\ searchCalls = 0
  /\ searchFailed = 0
  /\ llmCalls = 0
  /\ llmFailed = FALSE
  /\ displayed = 0
  /\ fileWrites = 0

\* main: the check of GOOGLE_API_KEY
CheckApiKey ==
  /\ pc = "main"
  /\ pc' = IF apiKey THEN "input_company" ELSE "done"
  /\ UNCHANGED <<apiKey, company, role, jd_text, queryNo, all_results,
                 company_info, response, wrap, parsed, roadmap, clock, raised,
                 searchCalls, searchFailed, llmCalls, llmFailed, displayed,
                 fileWrites>>

\* main: one turn of the company loop
InputCompany ==
  /\ pc = "input_company"
  /\ \E typed \in CompanyInputs :
       /\ company' = Strip(typed)
       /\ pc' = IF Strip(typed) # <<>> THEN "input_role" ELSE "input_company"
  /\ UNCHANGED <<apiKey, role, jd_text, queryNo, all_results,
                 company_info, response, wrap, parsed, roadmap, clock, raised,
                 searchCalls, searchFailed, llmCalls, llmFailed, displayed,
                 fileWrites>>

\* main: one turn of the role loop
InputRole ==
  /\ pc = "input_role"
  /\ \E typed \in RoleInputs :
       /\ role' = Strip(typed)
       /\ pc' = IF Strip(typed) # <<>> THEN "input_jd" ELSE "input_role"
  /\ UNCHANGED <<apiKey, company, jd_text, queryNo, all_results,
                 company_info, response, wrap, parsed, roadmap, clock, raised,
                 searchCalls, searchFailed, llmCalls, llmFailed, displayed,
                 fileWrites>>

\* main: get_job_description and the return on None
GetJobDescription ==
  /\ pc = "input_jd"
  /\ \E lines \in JdInputs :
       /\ jd_text' = get_job_description(lines)
       /\ pc' = IF get_job_description(lines) = None THEN "done" ELSE "search"
  /\ UNCHANGED <<apiKey, company, role, queryNo, all_results,
                 company_info, response, wrap, parsed, roadmap, clock, raised,
                 searchCalls, searchFailed, llmCalls, llmFailed, displayed,
                 fileWrites>>

\* search_company_info: one turn of its loop, and its return after the last
SearchCompanyInfo ==
  /\ pc = "search"
  /\ \E outcome \in SearchOutcomes :
       LET results == KeepResult(all_results, search_duckduckgo(outcome))
       IN /\ searchCalls' = searchCalls + 1
          /\ searchFailed' = searchFailed + (IF outcome.fails THEN 1 ELSE 0)
          /\ all_results' = results
          /\ IF queryNo < Len(QueriesUsed)
               THEN /\ queryNo' = queryNo + 1
                    /\ UNCHANGED <<pc, company_info>>
               ELSE /\ company_info' = CompanyInfo(results)
                    /\ pc' = "prompt"
                    /\ UNCHANGED queryNo
  /\ UNCHANGED <<apiKey, company, role, jd_text, response, wrap, parsed,
                 roadmap, clock, raised, llmCalls, llmFailed, displayed,
                 fileWrites>>

\* generate_roadmap: the prompt is built; the search texts are read no more
BuildPrompt ==
  /\ pc = "prompt"
  /\ pc' = "llm"
  /\ all_results' = <<>>
  /\ company_info' = <<>>
  /\ UNCHANGED <<apiKey, company, role, jd_text, queryNo, response, wrap,
                 parsed, roadmap, clock, raised, searchCalls, searchFailed,
                 llmCalls, llmFailed, displayed, fileWrites>>

\* generate_roadmap from llm.invoke to its return, or to the exception that
\* reaches main
GenerateRoadmap ==
  /\ pc = "llm"
  /\ llmCalls' = llmCalls + 1
  /\ \E answer \in {LlmRaises} \cup LlmWraps, t1 \in clock..MaxClock :
     \E t2 \in t1..MaxClock :
       IF answer = LlmRaises
         THEN /\ llmFailed' = TRUE
              /\ roadmap' = create_default_roadmap(company, role, t1)
              /\ clock' = t1
              /\ pc' = "display"
              /\ UNCHANGED <<response, wrap, parsed, raised>>
         ELSE LET got == extract_json_from_text(WrapText(answer), t1)
              IN /\ wrap' = answer
                 /\ response' = WrapText(answer)
                 /\ parsed' = got
                 /\ clock' = IF DecodeFails(WrapText(answer)) \/ ~StampRaises(got)
                             THEN t2 ELSE clock
                 /\ raised' = StampRaises(got)
                 /\ roadmap' = IF StampRaises(got) THEN None
                                ELSE Stamp(got, company, role, t2)
                 /\ pc' = IF StampRaises(got) THEN "done" ELSE "display"
                 /\ UNCHANGED llmFailed
  /\ UNCHANGED <<apiKey, company, role, jd_text, queryNo, all_results,
                 company_info, searchCalls, searchFailed, displayed, fileWrites>>

\* main: display_roadmap(roadmap)
DisplayRoadmap ==
  /\ pc = "display"
  /\ raised' = DisplayRaises(roadmap)
  /\ displayed' = IF DisplayRaises(roadmap) THEN displayed ELSE displayed + 1
  /\ pc' = IF DisplayRaises(roadmap) THEN "done" ELSE "save"
  /\ UNCHANGED <<apiKey, company, role, jd_text, queryNo, all_results,
                 company_info, response, wrap, parsed, roadmap, clock,
                 searchCalls, searchFailed, llmCalls, llmFailed, fileWrites>>

\* main: save_roadmap(roadmap, company, role)
SaveRoadmap ==
  /\ pc = "save"
  /\ fileWrites' = fileWrites + 1
  /\ pc' = "done"
  /\ UNCHANGED <<apiKey, company, role, jd_text, queryNo, all_results,
                 company_info, response, wrap, parsed, roadmap, clock, raised,
                 searchCalls, searchFailed, llmCalls, llmFailed, displayed>>

Next ==
  \/ CheckApiKey
  \/ InputCompany
  \/ InputRole
  \/ GetJobDescription
  \/ SearchCompanyInfo
  \/ BuildPrompt
  \/ GenerateRoadmap
  \/ DisplayRoadmap
  \/ SaveRoadmap

Spec == Init /\ [][Next]_vars

---------------------------------------------------------------------------
(* extract_json_from_text on its own, called on any text.                  *)

InitParser ==
  /\ pc = "extract"
  /\ wrap \in ParserWraps
  /\ response = WrapText(wrap)
  /\ apiKey = TRUE
  /\ company = <<>>
  /\ role = <<>>
  /\ jd_text = None
  /\ queryNo = 1
  /\ all_results = <<>>
  /\ company_info = <<>>
  /\ parsed = None
  /\ roadmap = None
  /\ clock = 0
  /\ raised = FALSE
  /\ searchCalls = 0
  /\ searchFailed = 0
  /\ llmCalls = 0
  /\ llmFailed = FALSE
  /\ displayed = 0
  /\ fileWrites = 0

ExtractJsonFromText ==
  /\ pc = "extract"
  /\ \E now \in clock..MaxClock :
       /\ parsed' = extract_json_from_text(response, now)
       /\ clock' = IF DecodeFails(response) THEN now ELSE clock
  /\ pc' = "extracted"
  /\ UNCHANGED <<apiKey, company, role, jd_text, queryNo, all_results,
                 company_info, response, wrap, roadmap, raised, searchCalls,
                 searchFailed, llmCalls, llmFailed, displayed, fileWrites>>

NextParser == ExtractJsonFromText

SpecParser == InitParser /\ [][NextParser]_vars

---------------------------------------------------------------------------
(* The properties.                                                         *)

\* the fallback path was used: llm.invoke raised, or json.loads did
Fallback == llmFailed \/ DecodeFails(response)

Returned == roadmap # None

StampedKeys == {"company", "role", "generated_at", "version"}

\* C1: extract_json_from_text returns a record for every text, and the default
\* record whenever the text does not decode to an object.
C1_ReturnsRecord ==
  pc = "extracted" =>
    /\ IsObj(parsed)
    /\ (DecodeFails(response) \/ ~IsObj(Loads(JsonStr(response)).value))
         => parsed = create_default_roadmap(<<"Unknown">>, <<"Unknown">>, clock)

\* C2: in every record generate_roadmap returns, company and role are the
\* caller's, generated_at is the clock's reading and version is "1.0".
C2_SystemFields ==
  Returned =>
    /\ roadmap.fields["company"] = StrOf(company)
    /\ roadmap.fields["role"] = StrOf(role)
    /\ roadmap.fields["generated_at"] = IsoFormat(clock)
    /\ roadmap.fields["version"] = Str("1.0")

\* a record was returned, after the clock moved, for a decoded answer that
\* named a company of its own
C2_Witness ==
  /\ Returned
  /\ ~Fallback
  /\ Has(parsed, "company")
  /\ parsed.fields["company"] # StrOf(company)
  /\ clock > 0

\* C3 as claimed: every returned record holds all eight fields.
C3_FullyPopulated == Returned => RequiredKeys \subseteq KeysOf(roadmap)

\* C3 as amended: every returned record holds company, role, generated_at and
\* version; on the fallback path it holds all eight fields; a decoded object is
\* returned with its own keys and those four, and no others.
C3_Amended ==
  Returned =>
    /\ StampedKeys \subseteq KeysOf(roadmap)
    /\ Fallback => RequiredKeys \subseteq KeysOf(roadmap)
    /\ ~Fallback => KeysOf(roadmap) = KeysOf(parsed) \cup StampedKeys

\* a decoded answer without rounds was returned
C3_Witness == Returned /\ ~Fallback /\ ~Has(roadmap, "rounds") /\ pc = "save"

\* C4 as claimed: an object embedded in any prose, bare or fenced, is returned.
C4_RecoversObject ==
  (pc = "extracted" /\ wrap.fence \in Fences) => parsed = Loads(wrap.obj).value

\* prose without a brace and without a fence
PlainProse(text) ==
  \A i \in 1..Len(text) : text[i] \notin {"{", "}", "fence"}

\* C4 as amended: an object, bare or inside a pair of fences, is returned when
\* the prose around it holds no brace and no fence and the word json does not
\* directly follow the closing fence of an untagged pair.
C4_Amended ==
  ( /\ pc = "extracted"
    /\ wrap.fence \in Fences
    /\ PlainProse(wrap.pre)
    /\ PlainProse(wrap.post)
    /\ ~(wrap.fence = "generic" /\ wrap.post # <<>> /\ Head(wrap.post) = "json") )
  => parsed = Loads(wrap.obj).value

\* a nested object inside a json fence, with prose before and after
C4_Witness ==
  /\ pc = "extracted"
  /\ wrap.fence = "json"
  /\ wrap.pre = <<"w">>
  /\ wrap.post = <<"w">>
  /\ Has(parsed, "note")
  /\ IsObj(parsed.fields["note"])

\* C5: a response that does not decode yields the record an LLM failure
\* yields: the default record for the caller's company and role.
C5_DecodeFailureAsLlmFailure ==
  (Returned /\ Fallback) => roadmap = create_default_roadmap(company, role, clock)

\* a record was returned for an answer that did not decode
C5_Witness == Returned /\ ~llmFailed /\ DecodeFails(response) /\ response # <<>>

\* C6 as claimed: a returned record holds a note only on the fallback path.
C6_NoteOnlyOnFallback == (Returned /\ Has(roadmap, "note")) => Fallback

\* C6 as amended: a returned record holds a note exactly when the fallback
\* path was used or the decoded object held one; on the fallback path it is
\* the default note, otherwise the decoded object's.
C6_Amended ==
  Returned =>
    /\ Has(roadmap, "note") <=> (Fallback \/ Has(parsed, "note"))
    /\ Fallback => roadmap.fields["note"] = DefaultNote
    /\ ~Fallback => roadmap.fields["note"] = parsed.fields["note"]

\* a decoded answer with a note of its own was returned
C6_Witness == Returned /\ ~Fallback /\ Has(roadmap, "note") /\ pc = "done"

\* the job description main holds is not empty
HasJobDescription == jd_text # None /\ Strip(jd_text.s) # <<>>

\* C7: no search call, LLM call or file write without the credential and a
\* job description that is not empty; a run without the credential stops at
\* once.
C7_NoWorkWithoutInputs ==
  /\ (searchCalls + llmCalls + fileWrites > 0) => (apiKey /\ HasJobDescription)
  /\ ~apiKey => pc \in {"main", "done"}
  /\ (pc = "done" /\ jd_text = None) => searchCalls + llmCalls + fileWrites = 0

\* a run with the credential ended on an empty job description
C7_Witness == pc = "done" /\ apiKey /\ company # <<>> /\ role # <<>> /\ jd_text = None

\* C8: a run that passed the checks ends having displayed the roadmap and
\* written it once, whatever the search calls, the LLM call and the response
\* were.
C8_SavesOnce ==
  (pc = "done" /\ apiKey /\ jd_text # None) => (displayed = 1 /\ fileWrites = 1)

Kinds(text) == {text[i].k : i \in 1..Len(text)}

\* C9 as claimed: neither placeholder is in the company info, and the static
\* paragraph is returned when no query gave a snippet.
C9_NoPlaceholder ==
  pc = "prompt" =>
    /\ Kinds(company_info) \cap {"noresults", "unavailable"} = {}
    /\ (\A i \in 1..Len(all_results) : all_results[i] = <<Unavailable>>)
         => company_info = <<Static>>

\* C9 as amended: the 'no results' sentence is never in the company info; the
\* 'Search unavailable' sentence is in it, in full, exactly when a call
\* failed; the static paragraph is returned exactly when no result was kept,
\* which needs both calls to have answered.
C9_Amended ==
  pc = "prompt" =>
    /\ "noresults" \notin Kinds(company_info)
    /\ searchFailed > 0 <=> (\E i \in 1..Len(company_info) : company_info[i] = Unavailable)
    /\ company_info = <<Static>> <=> all_results = <<>>
    /\ all_results = <<>> => searchFailed = 0
    /\ Len(all_results) >= searchFailed

\* one call failed and the other gave a snippet
C9_Witness ==
  /\ pc = "prompt"
  /\ searchFailed = 1
  /\ Len(all_results) = 2
  /\ Kinds(company_info) = {"unavailable", "A", "T"}

\* C10: at most two search calls and one LLM call; the LLM call comes after
\* both search calls; it is issued whatever the search calls did.
C10_CallsOrdered ==
  /\ searchCalls <= 2
  /\ llmCalls <= 1
  /\ llmCalls = 1 => searchCalls = 2
  /\ pc \in {"search", "prompt", "llm"} => llmCalls = 0
  /\ pc = "search" => searchCalls = queryNo - 1
  /\ (pc \in {"display", "save"} \/ (pc = "done" /\ HasJobDescription /\ apiKey))
       => llmCalls = 1
  /\ searchFailed <= searchCalls

\* the LLM was called after both search calls failed
C10_Witness == llmCalls = 1 /\ searchFailed = 2 /\ searchCalls = 2

====
